---- MODULE Spec2Model ----
(***************************************************************************)
(* Model of the scoring engine of whereto (src/main.go): NewScoreSet,      *)
(* ScoreSet.Print and Merge.                                               *)
(*                                                                         *)
(* float64 values are modelled exactly where the code does not print them: *)
(* a finite value is q * sqrt(r) with q and r rationals (r = 1 for a plain *)
(* rational), next to the IEEE specials NaN, +Inf and -Inf.  Rounding of   *)
(* float64 is not modelled; Print evaluates in fixed point (1/Scale).      *)
(***************************************************************************)
EXTENDS Integers, Sequences, FiniteSets

\* ------------------------------------------------------------------ bounds
MaxSets == 3      \* ScoreSets constructed in one run
MaxLeaves == 2    \* of which built by NewScoreSet
Scale == 10 * 100 \* fixed-point resolution of the report (units per 1.0)

\* -------------------------------------------------------------- rationals
Abs(x) == IF x < 0 THEN -x ELSE x

RECURSIVE GCD(_, _)
GCD(a, b) == IF b = 0 THEN a ELSE GCD(b, a % b)

\* a rational is <<n, d>> with d > 0, in lowest terms
Rat(n, d) ==
  LET g == GCD(Abs(n), Abs(d))
      s == IF d < 0 THEN -1 ELSE 1
  IN <<(s * n) \div g, (s * d) \div g>>

R0 == <<0, 1>>
R1 == <<1, 1>>
RAdd(a, b) == Rat(a[1] * b[2] + b[1] * a[2], a[2] * b[2])
RMul(a, b) == Rat(a[1] * b[1], a[2] * b[2])
RDiv(a, b) == Rat(a[1] * b[2], a[2] * b[1])
RNeg(a) == <<-a[1], a[2]>>
RSign(a) == IF a[1] > 0 THEN 1 ELSE IF a[1] < 0 THEN -1 ELSE 0

RECURSIVE RSum(_)
RSum(s) == IF s = <<>> THEN R0 ELSE RAdd(Head(s), RSum(Tail(s)))

\* ---------------------------------------------------------------- float64
\* [c |-> "fin", q |-> q, r |-> r] is q * sqrt(r); the specials carry q = 0, r = 1
Fin(q, r) == [c |-> "fin", q |-> q, r |-> r]
FRat(q) == Fin(q, R1)
FInt(n) == FRat(<<n, 1>>)
NaN == [c |-> "nan", q |-> R0, r |-> R1]
PInf == [c |-> "pinf", q |-> R0, r |-> R1]
NInf == [c |-> "ninf", q |-> R0, r |-> R1]

IsFinite(x) == x.c = "fin"
IsZero(x) == x.c = "fin" /\ x.q = R0
FSign(x) == IF x.c = "pinf" THEN 1 ELSE IF x.c = "ninf" THEN -1 ELSE RSign(x.q)

FNeg(x) ==
  CASE x.c = "fin" -> Fin(RNeg(x.q), x.r)
    [] x.c = "pinf" -> NInf
    [] x.c = "ninf" -> PInf
    [] OTHER -> NaN

\* x + y for plain rationals and specials
FAdd(x, y) ==
  CASE x.c = "nan" \/ y.c = "nan" -> NaN
    [] x.c = "fin" /\ y.c = "fin" -> FRat(RAdd(x.q, y.q))
    [] x.c = "fin" -> y
    [] y.c = "fin" -> x
    [] x.c = y.c -> x
    [] OTHER -> NaN

FSub(x, y) == FAdd(x, FNeg(y))

\* x * y for plain rationals and specials
FMul(x, y) ==
  CASE x.c = "nan" \/ y.c = "nan" -> NaN
    [] x.c = "fin" /\ y.c = "fin" -> FRat(RMul(x.q, y.q))
    [] IsZero(x) \/ IsZero(y) -> NaN
    [] FSign(x) * FSign(y) > 0 -> PInf
    [] OTHER -> NInf

\* x / y, x a plain rational or a special, y = q * sqrt(r) or a special
FDiv(x, y) ==
  CASE x.c = "nan" \/ y.c = "nan" -> NaN
    [] x.c = "fin" /\ y.c = "fin" ->
         IF y.q = R0
           THEN IF x.q = R0 THEN NaN ELSE IF RSign(x.q) > 0 THEN PInf ELSE NInf
           ELSE Fin(RDiv(x.q, RMul(y.q, y.r)), y.r)
    [] x.c = "fin" -> FRat(R0)
    [] y.c = "fin" ->
         IF FSign(x) * (IF RSign(y.q) < 0 THEN -1 ELSE 1) > 0 THEN PInf ELSE NInf
    [] OTHER -> NaN

\* math.Sqrt of a plain rational or a special
FSqrt(x) ==
  CASE x.c = "nan" \/ x.c = "ninf" -> NaN
    [] x.c = "pinf" -> PInf
    [] x.q = R0 -> FRat(R0)
    [] RSign(x.q) < 0 -> NaN
    [] OTHER -> Fin(R1, x.q)

\* the square of a finite value, a rational
FSquare(x) == RMul(RMul(x.q, x.q), x.r)

RECURSIVE FSum(_)
FSum(s) == IF s = <<>> THEN FRat(R0) ELSE FAdd(Head(s), FSum(Tail(s)))

\* ------------------------------------------------------------ gonum stat
\* stat.Mean(x, nil): floats.Sum(x) / len(x)
Mean(x) == FDiv(FSum(x), FInt(Len(x)))

\* Variance with the population divisor n instead of n - 1
VariancePopulation(x) ==
  LET n == Len(x)
      mean == Mean(x)
      d == [i \in 1..n |-> FSub(x[i], mean)]
      ss == FSum([i \in 1..n |-> FMul(d[i], d[i])])
  IN FDiv(ss, FInt(n))

\* stat.Variance(x, nil): the unbiased (sample) variance, corrected two-pass
Variance(x) ==
  LET n == Len(x)
      mean == Mean(x)
      d == [i \in 1..n |-> FSub(x[i], mean)]
      ss == FSum([i \in 1..n |-> FMul(d[i], d[i])])
      compensation == FSum(d)
      unnormalised == FSub(ss, FDiv(FMul(compensation, compensation), FInt(n)))
  IN FDiv(unnormalised, FInt(n - 1))

\* stat.MeanStdDev(x, nil)
MeanStdDev(x) == [mu |-> Mean(x), sigma |-> FSqrt(Variance(x))]

\* ------------------------------------------------------------- the inputs
BIGGER == "BIGGER"
SMALLER == "SMALLER"

\* candidate city lists a caller passes (a City is identified by its Name)
CityLists == {<<"A", "B", "C">>, <<"B", "A", "C">>, <<"A", "B">>}

\* the scoring axes of the caller: label, goal and extractor (ScoreFunc)
Axes ==
  { [axis |-> "/Education/Math", better |-> BIGGER,
     f |-> [A |-> FInt(10), B |-> FInt(20), C |-> FInt(30)]],
    [axis |-> "/Livability/Airport", better |-> SMALLER,
     f |-> [A |-> FInt(3), B |-> FInt(1), C |-> FInt(1)]],
    [axis |-> "/Taxes/Sales", better |-> BIGGER,
     f |-> [A |-> FInt(7), B |-> FInt(7), C |-> FInt(7)]],
    [axis |-> "/Climate/Snow", better |-> SMALLER,
     f |-> [A |-> PInf, B |-> FInt(4), C |-> NaN]] }

\* ------------------------------------------------------------ NewScoreSet
\* mat.NewDense(r, c, data)
NewDense(r, c, data) == [r |-> r, c |-> c, data |-> data]

\* the raw values f(city) of the cities, in order
RawRow(cities, f) == [i \in 1..Len(cities) |-> f[cities[i]]]

\* the z-score normalized row
ZRow(row, better) ==
  LET ms == MeanStdDev(row)
  IN [i \in 1..Len(row) |->
        LET val == FDiv(FSub(row[i], ms.mu), ms.sigma)
        IN IF SMALLER = better THEN FNeg(val) ELSE val]

\* NewScoreSet in a memory of column-name arrays and ScoreSets: allocates
\* the columnNames array and the ScoreSet, and returns the new memory
NewScoreSet(arrays, heap, axis, cities, better, f) ==
  LET row == RawRow(cities, f)
      result == [columnNames |-> Len(arrays) + 1,
                 rowNames |-> <<axis>>,
                 rowWeights |-> <<R1>>,
                 scores |-> NewDense(1, Len(cities), <<ZRow(row, better)>>)]
  IN [arrays |-> Append(arrays, cities), heap |-> Append(heap, result)]

\* ------------------------------------------------------------------ Merge
\* the weights argument: nil, or a slice of float64
NilWeights == [nil |-> TRUE, w |-> <<>>]
Weights(w) == [nil |-> FALSE, w |-> w]

\* the argument checks without the check of the weight sum
CheckArgsNoSum(sets, weights) ==
  IF Len(sets) < 2 THEN "Merge must have 2 or more ScoreSets"
  ELSE IF weights.nil THEN ""
  ELSE IF Len(sets) # Len(weights.w) THEN "merge sets/weights length must match"
  ELSE ""

\* the argument checks at the head of Merge: the panic message, "" if none
CheckArgs(sets, weights) ==
  IF Len(sets) < 2 THEN "Merge must have 2 or more ScoreSets"
  ELSE IF weights.nil THEN ""
  ELSE IF Len(sets) # Len(weights.w) THEN "merge sets/weights length must match"
  ELSE IF RSum(weights.w) # R1 THEN "merge weights must sum to 1.0"
  ELSE ""

\* the output weight with the equal split left out
ScaleWeightNoSplit(rowWeight, sets, weights, i) ==
  IF weights.nil THEN rowWeight ELSE RMul(rowWeight, weights.w[i])

\* the weight one input row gets in the output
ScaleWeight(rowWeight, sets, weights, i) ==
  IF weights.nil
    THEN RDiv(rowWeight, <<Len(sets), 1>>)
    ELSE RMul(rowWeight, weights.w[i])

\* the inner loop leaving after the first row weight of the set
AppendWeightsFirst(mergedWeights, rowWeights, k, sets, weights, i) ==
  IF k > Len(rowWeights) THEN mergedWeights
  ELSE Append(mergedWeights, RMul(rowWeights[k], IF weights.nil THEN R1 ELSE weights.w[i]))

\* the inner loop over sets[i].rowWeights, appending to merged.rowWeights
RECURSIVE AppendWeights(_, _, _, _, _, _)
AppendWeights(mergedWeights, rowWeights, k, sets, weights, i) ==
  IF k > Len(rowWeights) THEN mergedWeights
  ELSE AppendWeights(Append(mergedWeights, ScaleWeight(rowWeights[k], sets, weights, i)),
                     rowWeights, k + 1, sets, weights, i)

\* the first loop over the sets: row weights, the column check, the row count
RECURSIVE WeightsLoop(_, _, _, _, _, _)
WeightsLoop(heap, sets, weights, columns, i, acc) ==
  IF i > Len(sets) THEN acc
  ELSE
    LET set == heap[sets[i]]
        rowWeights == AppendWeights(acc.rowWeights, set.rowWeights, 1, sets, weights, i)
    IN IF set.scores.c # Len(columns)
         THEN [panic |-> "tnarg", rowWeights |-> rowWeights, rows |-> acc.rows]
         ELSE WeightsLoop(heap, sets, weights, columns, i + 1,
                          [panic |-> "", rowWeights |-> rowWeights,
                           rows |-> acc.rows + set.scores.r])

\* the inner loop over the rows of sets[i]: row names and SetRow
RECURSIVE CopyRows(_, _, _)
CopyRows(acc, set, j) ==
  IF j > set.scores.r THEN acc
  ELSE CopyRows([rowNames |-> Append(acc.rowNames, set.rowNames[j]),
                 data |-> Append(acc.data, set.scores.data[j])],
                set, j + 1)

\* the second loop over the sets
RECURSIVE RowsLoop(_, _, _, _)
RowsLoop(heap, sets, i, acc) ==
  IF i > Len(sets) THEN acc
  ELSE RowsLoop(heap, sets, i + 1, CopyRows(acc, heap[sets[i]], 1))

\* Merge rescaling the row weights of its first input in place
MergeInPlace(arrays, heap, sets, weights) ==
  LET args == CheckArgs(sets, weights)
      columns == arrays[heap[sets[1]].columnNames]
      first == WeightsLoop(heap, sets, weights, columns, 1,
                           [panic |-> "", rowWeights |-> <<>>, rows |-> 0])
      second == RowsLoop(heap, sets, 1, [rowNames |-> <<>>, data |-> <<>>])
      merged == [columnNames |-> heap[sets[1]].columnNames,
                 rowNames |-> second.rowNames,
                 rowWeights |-> first.rowWeights,
                 scores |-> NewDense(first.rows, Len(columns), second.data)]
      input == heap[sets[1]]
      scaled == [input EXCEPT !.rowWeights =
                   [k \in 1..Len(input.rowWeights) |-> first.rowWeights[k]]]
  IN IF args # "" THEN [panic |-> args, arrays |-> arrays, heap |-> heap]
     ELSE IF first.panic # "" THEN [panic |-> first.panic, arrays |-> arrays, heap |-> heap]
     ELSE [panic |-> "", arrays |-> arrays,
           heap |-> Append([heap EXCEPT ![sets[1]] = scaled], merged)]

\* Merge of the ScoreSets heap[sets[1]], heap[sets[2]], ...: the panic
\* message ("" if it returns) and the memory after the call
Merge(arrays, heap, sets, weights) ==
  LET args == CheckArgs(sets, weights)
      columns == arrays[heap[sets[1]].columnNames]
      first == WeightsLoop(heap, sets, weights, columns, 1,
                           [panic |-> "", rowWeights |-> <<>>, rows |-> 0])
      second == RowsLoop(heap, sets, 1, [rowNames |-> <<>>, data |-> <<>>])
      merged == [columnNames |-> heap[sets[1]].columnNames,
                 rowNames |-> second.rowNames,
                 rowWeights |-> first.rowWeights,
                 scores |-> NewDense(first.rows, Len(columns), second.data)]
  IN IF args # "" THEN [panic |-> args, arrays |-> arrays, heap |-> heap]
     ELSE IF first.panic # "" THEN [panic |-> first.panic, arrays |-> arrays, heap |-> heap]
     ELSE [panic |-> "", arrays |-> arrays, heap |-> Append(heap, merged)]

\* ------------------------------------------------------------------ Print
\* floor of the square root, by bisection: lo * lo <= n < hi * hi
RECURSIVE Bisect(_, _, _)
Bisect(n, lo, hi) ==
  IF hi - lo <= 1 THEN lo
  ELSE LET mid == (lo + hi) \div 2
       IN IF mid * mid <= n THEN Bisect(n, mid, hi) ELSE Bisect(n, lo, mid)

Isqrt(n) == Bisect(n, 0, IF n + 1 < 46341 THEN n + 1 ELSE 46341)

\* a rational rounded to the nearest integer
Round(a) == (2 * a[1] + a[2]) \div (2 * a[2])

\* a float64 in units of 1/Scale: [c |-> "fin", v |-> n], or a special
Fixed(n) == [c |-> "fin", v |-> n]
FixedNaN == [c |-> "nan", v |-> 0]

ToFixed(x) ==
  IF x.c # "fin" THEN [c |-> x.c, v |-> 0]
  ELSE LET sq == FSquare(x)
       IN Fixed(RSign(x.q) * Isqrt((sq[1] * Scale * Scale) \div sq[2]))

\* 100 * Phi(k / 4) for k = -16 .. 16, in hundredths of a percent
CDFTable ==
  << 0, 1, 2, 6, 13, 30, 62, 122, 228, 401, 668, 1056, 1587, 2266, 3085, 4013,
     5000,
     5987, 6915, 7734, 8413, 8944, 9332, 9599, 9772, 9878, 9938, 9970, 9987,
     9994, 9998, 9999, 10000 >>

\* 100.0 * distuv.UnitNormal.CDF(z), in hundredths of a percent: the table,
\* linearly interpolated
CDF(z) ==
  CASE z.c = "nan" -> FixedNaN
    [] z.c = "pinf" -> Fixed(10000)
    [] z.c = "ninf" -> Fixed(0)
    [] z.v <= -4 * Scale -> Fixed(0)
    [] z.v >= 4 * Scale -> Fixed(10000)
    [] OTHER ->
         LET step == Scale \div 4
             pos == z.v + 4 * Scale
             k == pos \div step
             lo == CDFTable[IF k + 1 > 33 THEN 33 ELSE k + 1]
             hi == CDFTable[IF k + 2 > 33 THEN 33 ELSE k + 2]
         IN Fixed(lo + ((hi - lo) * (pos % step)) \div step)

\* scored[i].Score > scored[j].Score on float64: false when either is NaN
Greater(a, b) == a.c = "fin" /\ b.c = "fin" /\ a.v > b.v

\* the inner loop of insertion sort: sinks element j while it is less than
\* its predecessor
RECURSIVE Sink(_, _)
Sink(scored, j) ==
  IF j > 1 /\ Greater(scored[j].Score, scored[j - 1].Score)
    THEN Sink([scored EXCEPT ![j] = scored[j - 1], ![j - 1] = scored[j]], j - 1)
    ELSE scored

\* sort.Slice on fewer than 12 elements: insertion sort
RECURSIVE InsertionSort(_, _)
InsertionSort(scored, i) ==
  IF i > Len(scored) THEN scored ELSE InsertionSort(Sink(scored, i), i + 1)

SortSlice(scored) == InsertionSort(scored, 2)

\* stat.Mean(x, weights) of fixed-point values: sum(w * x) / sum(w)
WeightedMean(x, weights) ==
  LET n == Len(x)
      sumWeights == RSum(weights)
      sumValues == RSum([i \in 1..n |-> RMul(weights[i], <<x[i].v, 1>>)])
  IN IF \E i \in 1..n : x[i].c # "fin" THEN FixedNaN
     ELSE IF sumWeights = R0
       THEN IF sumValues = R0 THEN FixedNaN
            ELSE [c |-> IF RSign(sumValues) > 0 THEN "pinf" ELSE "ninf", v |-> 0]
     ELSE Fixed(Round(RDiv(sumValues, sumWeights)))

\* the ranked list of one row
RowList(columns, row) ==
  SortSlice([j \in 1..Len(columns) |->
               [Name |-> columns[j], Score |-> CDF(ToFixed(row[j]))]])

\* the ranked list printed under "Final"
FinalList(columns, set) ==
  SortSlice([j \in 1..Len(columns) |->
               LET col == [i \in 1..set.scores.r |-> ToFixed(set.scores.data[i][j])]
                   mu == WeightedMean(col, set.rowWeights)
               IN [Name |-> columns[j], Score |-> CDF(mu)]])

\* what set.Print() logs: per row its weight (tenths of a percent), its
\* label and its ranked list, then the final ranked list
ScoreSetPrint(arrays, set) ==
  LET columns == arrays[set.columnNames]
  IN [rows |-> [i \in 1..Len(set.rowNames) |->
                  [percent |-> Round(RMul(<<1000, 1>>, set.rowWeights[i])),
                   axis |-> set.rowNames[i],
                   scored |-> RowList(columns, set.scores.data[i])]],
      final |-> FinalList(columns, set)]

NoReport == [rows |-> <<>>, final |-> <<>>]

\* ---------------------------------------------------------- the program
VARIABLES
  arrays,   \* the backing arrays of the columnNames slices
  heap,     \* the ScoreSets constructed so far, in order of construction
  lastOp,   \* the last call: its arguments and what it returned or logged
  status    \* "running", or "panicked" once a call has panicked

vars == <<arrays, heap, lastOp, status>>

Op(op, cities, axis, sets, weights, panic, report) ==
  [op |-> op, cities |-> cities, axis |-> axis, sets |-> sets,
   weights |-> weights, panic |-> panic, report |-> report]

Init ==
  /\ arrays = <<>>
  /\ heap = <<>>
  /\ lastOp = Op("none", <<>>, "", <<>>, NilWeights, "", NoReport)
  /\ status = "running"

\* the slices of ScoreSets a caller passes to Merge: none, one, any two (in
\* either order, or the same set twice), or three in order of construction
SetChoices ==
  LET n == Len(heap)
  IN {<<>>} \cup {<<i>> : i \in 1..n} \cup {<<i, j>> : i, j \in 1..n}
       \cup {<<i, j, k>> \in (1..n) \X (1..n) \X (1..n) : i < j /\ j < k}

\* the weights a caller passes to Merge
WeightChoices ==
  { NilWeights,
    Weights(<<Rat(7, 10), Rat(3, 10)>>),
    Weights(<<Rat(1, 2), Rat(2, 5)>>),
    Weights(<<Rat(1, 2), Rat(1, 4), Rat(1, 4)>>) }

NewScoreSetCall ==
  /\ status = "running"
  /\ Len(heap) < MaxSets
  /\ Len(arrays) < MaxLeaves
  /\ \E cities \in CityLists, a \in Axes :
       LET m == NewScoreSet(arrays, heap, a.axis, cities, a.better, a.f)
       IN /\ arrays' = m.arrays
          /\ heap' = m.heap
          /\ lastOp' = Op("NewScoreSet", cities, a.axis, <<>>, NilWeights, "", NoReport)
  /\ UNCHANGED status

MergeCall ==
  /\ status = "running"
  /\ Len(heap) < MaxSets
  /\ \E sets \in SetChoices, weights \in WeightChoices :
       LET m == Merge(arrays, heap, sets, weights)
       IN /\ arrays' = m.arrays
          /\ heap' = m.heap
          /\ status' = IF m.panic = "" THEN "running" ELSE "panicked"
          /\ lastOp' = Op("Merge", <<>>, "", sets, weights, m.panic, NoReport)

\* Print is called on the ScoreSet built last, as main does; it changes no
\* ScoreSet, so a later call on an older set logs what it logged then
PrintCall ==
  /\ status = "running"
  /\ heap # <<>>
  /\ lastOp' = Op("Print", <<>>, "", <<Len(heap)>>, NilWeights, "",
                  ScoreSetPrint(arrays, heap[Len(heap)]))
  /\ UNCHANGED <<arrays, heap, status>>

Next == NewScoreSetCall \/ MergeCall \/ PrintCall

Spec == Init /\ [][Next]_vars


\* ------------------------------------------------------------- properties
Last == heap[Len(heap)]
Columns(set) == arrays[set.columnNames]
Input(i) == heap[lastOp.sets[i]]
LeafBuilt == lastOp.op = "NewScoreSet"
MergeReturned == lastOp.op = "Merge" /\ lastOp.panic = ""
AxisOf(name) == CHOOSE a \in Axes : a.axis = name
LastRaw == RawRow(lastOp.cities, AxisOf(lastOp.axis).f)
AllFinite(row) == \A i \in 1..Len(row) : IsFinite(row[i])
TwoDistinct(row) == \E i, j \in 1..Len(row) : row[i] # row[j]

\* the number of output rows that precede the rows of input i
RECURSIVE RowsBefore(_)
RowsBefore(i) == IF i <= 1 THEN 0 ELSE RowsBefore(i - 1) + Input(i - 1).scores.r

\* C1: a Merge that returns was given sets whose column names are all the
\* same sequence as those of the first set, name by name; sets with the
\* same names in another order make it panic.
C1_ColumnOrderChecked ==
  MergeReturned =>
    \A i \in 1..Len(lastOp.sets) : Columns(Input(i)) = Columns(Input(1))

\* C2 as stated: with at least two distinct (finite) raw values the row has
\* mean 0 and population standard deviation 1: its z-scores sum to 0 and
\* their squares sum to the number of alternatives.
C2_PopulationStdDev ==
  (LeafBuilt /\ AllFinite(LastRaw) /\ TwoDistinct(LastRaw)) =>
    LET row == Last.scores.data[1]
        n == Len(row)
    IN /\ AllFinite(row)
       /\ \A i \in 1..n : row[i].r = row[1].r
       /\ RSum([i \in 1..n |-> row[i].q]) = R0
       /\ RSum([i \in 1..n |-> FSquare(row[i])]) = <<n, 1>>

\* C2 as amended: with at least two distinct finite raw values the row has
\* mean 0 and sample standard deviation 1: its z-scores sum to 0 and their
\* squares sum to the number of alternatives minus one.
C2_SampleStdDev ==
  (LeafBuilt /\ AllFinite(LastRaw) /\ TwoDistinct(LastRaw)) =>
    LET row == Last.scores.data[1]
        n == Len(row)
    IN /\ AllFinite(row)
       /\ \A i \in 1..n : row[i].r = row[1].r
       /\ RSum([i \in 1..n |-> row[i].q]) = R0
       /\ RSum([i \in 1..n |-> FSquare(row[i])]) = <<n - 1, 1>>

\* raw values 10, 20, 30 with goal BIGGER have become the row -1, 0, 1
C2_Witness ==
  /\ LeafBuilt
  /\ lastOp.axis = "/Education/Math"
  /\ lastOp.cities = <<"A", "B", "C">>
  /\ LET row == Last.scores.data[1]
     IN /\ FSquare(row[1]) = R1 /\ FSign(row[1]) = -1
        /\ IsZero(row[2])
        /\ FSquare(row[3]) = R1 /\ FSign(row[3]) = 1

\* C3: the row weights of the output of a Merge with explicit weights sum
\* to 1, whatever NewScoreSet and Merge calls built its inputs.
C3_WeightConservation ==
  (MergeReturned /\ ~lastOp.weights.nil) => RSum(Last.rowWeights) = R1

\* an explicit-weight Merge has returned, one input being a Merge output
C3_Witness ==
  /\ MergeReturned
  /\ ~lastOp.weights.nil
  /\ \E i \in 1..Len(lastOp.sets) : Input(i).scores.r >= 2
  /\ \E k \in 1..Len(Last.rowWeights) : Last.rowWeights[k] = Rat(7, 20)

ValidArgs(sets, weights) ==
  /\ Len(sets) >= 2
  /\ \/ weights.nil
     \/ Len(weights.w) = Len(sets) /\ RSum(weights.w) = R1

\* C4: a Merge call adds a ScoreSet only if it has at least 2 sets and
\* weights that are nil or one per set and sum to 1; any other call panics
\* and leaves the ScoreSets as they were.
C4_MergeArguments ==
  [][lastOp'.op = "Merge" =>
       /\ heap' # heap =>
            ValidArgs(lastOp'.sets, lastOp'.weights) /\ lastOp'.panic = ""
       /\ ~ValidArgs(lastOp'.sets, lastOp'.weights) =>
            /\ lastOp'.panic # ""
            /\ status' = "panicked"
            /\ heap' = heap
            /\ arrays' = arrays]_vars

\* Merge of two sets with weights 0.5, 0.4 has panicked
C4_Witness ==
  /\ lastOp.op = "Merge"
  /\ Len(lastOp.sets) = 2
  /\ lastOp.weights = Weights(<<Rat(1, 2), Rat(2, 5)>>)
  /\ lastOp.panic = "merge weights must sum to 1.0"
  /\ status = "panicked"

\* C5: the output of a Merge is the concatenation of the input rows in input
\* order, each with its label, its score vector and its rescaled weight, and
\* the output columns are the columns of the inputs.
C5_Concatenation ==
  MergeReturned =>
    LET n == Len(lastOp.sets)
    IN /\ Last.scores.r = RowsBefore(n + 1)
       /\ Len(Last.rowNames) = RowsBefore(n + 1)
       /\ \A i \in 1..n : Columns(Last) = Columns(Input(i))
       /\ \A i \in 1..n : \A j \in 1..Input(i).scores.r :
            LET out == RowsBefore(i) + j
            IN /\ Last.rowNames[out] = Input(i).rowNames[j]
               /\ Last.scores.data[out] = Input(i).scores.data[j]
               /\ Last.rowWeights[out] =
                    IF lastOp.weights.nil
                      THEN RDiv(Input(i).rowWeights[j], <<n, 1>>)
                      ELSE RMul(Input(i).rowWeights[j], lastOp.weights.w[i])

\* a list holds every column once, with percentiles, in non-increasing order
Ranked(list, columns) ==
  /\ Len(list) = Len(columns)
  /\ \A c \in 1..Len(columns) :
       Cardinality({k \in 1..Len(list) : list[k].Name = columns[c]}) = 1
  /\ \A k \in 1..Len(list) :
       list[k].Score.c = "fin" /\ list[k].Score.v >= 0 /\ list[k].Score.v <= 10000
  /\ \A k \in 1..(Len(list) - 1) : list[k].Score.v >= list[k + 1].Score.v

\* C6: the final list of a report holds every column once, scored by the
\* normal CDF of the weighted mean of its z-scores, in non-increasing order
\* of percentile, and so does the list of each row with the row's z-scores.
C6_RankedReport ==
  lastOp.op = "Print" =>
    LET set == heap[lastOp.sets[1]]
        columns == Columns(set)
        report == lastOp.report
    IN /\ Ranked(report.final, columns)
       /\ \A k \in 1..Len(report.final) : \A j \in 1..Len(columns) :
            report.final[k].Name = columns[j] =>
              report.final[k].Score =
                CDF(WeightedMean([i \in 1..set.scores.r |-> ToFixed(set.scores.data[i][j])],
                                 set.rowWeights))
       /\ Len(report.rows) = set.scores.r
       /\ \A i \in 1..Len(report.rows) : Ranked(report.rows[i].scored, columns)

\* C7: when all raw values are the same, the row is all zeros.
C7_ZeroVariance ==
  (LeafBuilt /\ AllFinite(LastRaw) /\ ~TwoDistinct(LastRaw)) =>
    \A j \in 1..Len(LastRaw) : IsZero(Last.scores.data[1][j])

\* C8: NewScoreSet rejects a non-finite raw value: no ScoreSet is returned.
C8_NonFiniteRejected ==
  (LeafBuilt /\ ~AllFinite(LastRaw)) => lastOp.panic # ""

\* C9: no call changes a ScoreSet that exists: its columnNames (the array
\* behind the slice), rowNames, rowWeights and scores stay as constructed.
C9_Immutable ==
  [][/\ Len(heap') >= Len(heap)
     /\ \A i \in 1..Len(heap) :
          /\ heap'[i] = heap[i]
          /\ arrays'[heap[i].columnNames] = arrays[heap[i].columnNames]]_vars

\* a Merge output that shares the column slice of an input has been printed
C9_Witness ==
  /\ lastOp.op = "Print"
  /\ Last.scores.r >= 2
  /\ \E i \in 1..(Len(heap) - 1) : heap[i].columnNames = Last.columnNames
  /\ lastOp.report.final # <<>>

\* C10: in every ScoreSet rowNames, rowWeights and the matrix have the same
\* number of rows and the matrix has one column per column name; a Merge
\* output has as many rows as its inputs together.
C10_Dimensions ==
  /\ \A i \in 1..Len(heap) :
       LET s == heap[i]
       IN /\ Len(s.rowNames) = Len(s.rowWeights)
          /\ Len(s.rowWeights) = s.scores.r
          /\ Len(s.scores.data) = s.scores.r
          /\ s.scores.c = Len(Columns(s))
          /\ \A k \in 1..Len(s.scores.data) : Len(s.scores.data[k]) = s.scores.c
  /\ MergeReturned => Last.scores.r = RowsBefore(Len(lastOp.sets) + 1)

\* a Merge of a two-row Merge output and a leaf has returned three rows
C10_Witness ==
  /\ MergeReturned
  /\ Last.scores.r = 3
  /\ \E i \in 1..Len(lastOp.sets) : Input(i).scores.r = 2
====
